---- MODULE Spec2Model ----
(***************************************************************************)
(* Model of the audio engine of Algorythm (src/services/AudioEngine.ts,    *)
(* the current version of the class, lines 150-306) on top of the part of  *)
(* the Web Audio platform it drives: the connections of the audio graph,   *)
(* the media elements that already own a source node, and the pending      *)
(* getUserMedia requests of suspended connectMicrophone calls; and of the  *)
(* visualizer component (src/components/VisualizerCanvas.tsx) with the     *)
(* frame loops it and its 3D child component run on requestAnimationFrame. *)
(***************************************************************************)
EXTENDS Integers, FiniteSets, Sequences, TLC

VARIABLES
    audioContext,         \* this.audioContext: NULL or CTX
    analyser,             \* this.analyser: NULL or ANALYSER
    gainNode,             \* this.gainNode: NULL or GAIN
    sourceNode,           \* this.sourceNode: NoNode or a source node
    currentMediaElement,  \* this.currentMediaElement: 0 (null) or an element
    dataArray,            \* this.dataArray: NoBuffer (null) or the byte buffer
    timeArray,            \* this.timeArray: NoBuffer (null) or the byte buffer
    ctxState,             \* audioContext.state: "none", "suspended", "running"
    analyserInputs,       \* platform: source nodes connected to the analyser
    analyserOut,          \* platform: nodes the analyser is connected to
    gainOut,              \* platform: nodes the gain node is connected to
    constructed,          \* platform: objects of the graph constructed so far
    gainValue,            \* platform: gainNode.gain.value, in thousandths
    wrapped,              \* platform: elements that own a MediaElementSource
    pending,              \* suspended connectMicrophone calls (getUserMedia)
    micRequests,          \* number of getUserMedia requests issued so far
    lastData,             \* the AudioData returned by the last getAudioData
    lastOp,               \* the last operation, its outcome and what it saw
    held,                 \* the arrays of an AudioData a caller kept, as read
    build,                \* which version of VisualizerCanvas is mounted
    mode,                 \* prop mode
    isPlaying,            \* prop isPlaying
    windowSize,           \* window.innerWidth, window.innerHeight
    canvasSize,           \* canvas.width, canvas.height
    requestRef,           \* requestRef.current: 0 (null) or a frame handle
    callbacks,            \* the pending requestAnimationFrame callbacks
    frames,               \* number of draw ticks so far
    rotationRef,          \* rotationRef.current
    kaleidoscopeParticlesRef, \* the particles, each with its life
    bubbleFieldRef,       \* the bubbles, each with its life
    waterPhaseRef,        \* waterPhaseRef.current
    octopusPulseRef,      \* octopusPulseRef.current
    historyRef,           \* historyRef.current: the frames kept for trails
    auroraBandsRef,       \* auroraBandsRef.current: the ribbons of Grid mode
    smoothedBassRef,      \* smoothedBassRef.current
    smoothedMidRef,       \* smoothedMidRef.current
    smoothedTrebleRef,    \* smoothedTrebleRef.current
    beatDetectedRef,      \* beatDetectedRef.current
    lastBassRef,          \* lastBassRef.current
    audioData,            \* React state audioData, as last rendered
    queued,               \* the update queued by setAudioData, if any
    scene,                \* the mounted 3D component and its refs
    undisposed,           \* GPU objects the last unmounted component left
    lastFrame,            \* the last draw tick: what it sampled and rendered
    lastRequest           \* the last setIsPlaying of the parent

engineVars == <<audioContext, analyser, gainNode, dataArray, timeArray, gainOut,
                constructed, gainValue>>
routeVars  == <<sourceNode, currentMediaElement, analyserInputs, analyserOut,
                wrapped, pending, micRequests>>
animationVars == <<rotationRef, kaleidoscopeParticlesRef, bubbleFieldRef,
                   waterPhaseRef, octopusPulseRef, historyRef, auroraBandsRef>>
smoothVars == <<smoothedBassRef, smoothedMidRef, smoothedTrebleRef,
                beatDetectedRef, lastBassRef>>
visualizerVars == <<build, mode, isPlaying, windowSize, canvasSize, requestRef,
                    callbacks, frames, animationVars, smoothVars, audioData,
                    queued, scene, undisposed, lastFrame, lastRequest>>
\* What the callers of the engine hold.
callerVars == <<held, visualizerVars>>
vars == <<audioContext, analyser, gainNode, sourceNode, currentMediaElement,
          dataArray, timeArray, ctxState, analyserInputs, analyserOut, gainOut,
          constructed, gainValue, wrapped, pending, micRequests, lastData,
          lastOp, held, visualizerVars>>

(***************************************************************************)
(* Bounds of the model.                                                    *)
(***************************************************************************)
MaxElements == 2      \* distinct HTMLAudioElement objects handed to the engine
MaxMicRequests == 2   \* getUserMedia requests issued in one behaviour
MaxLevel == 1         \* bin magnitudes are drawn from {0, 255} and 1..MaxLevel
MaxFrames == 3        \* ticks of the draw loop, and of the 3D loop, in one behaviour
MaxRun == 125         \* ticks of the draw loop in a long run on a steady signal

Elements == 1..MaxElements

(***************************************************************************)
(* Program constants.                                                      *)
(***************************************************************************)
FFT_SIZE == 2048

\* AnalyserNode.frequencyBinCount is half the FFT size.
frequencyBinCount == FFT_SIZE \div 2

\* const maxHistory = 30
maxHistory == 30

\* timeRef.current += 0.016, in thousandths
FrameDelta == 16

(***************************************************************************)
(* Objects.                                                                *)
(***************************************************************************)
NULL == "null"
CTX == "AudioContext"
ANALYSER == "AnalyserNode"
GAIN == "GainNode"
DESTINATION == "AudioDestinationNode"

NoNode == <<"null", 0>>
ElementNode(e) == <<"MediaElementAudioSourceNode", e>>
StreamNode(k) == <<"MediaStreamAudioSourceNode", k>>
IsStreamNode(n) == n[1] = "MediaStreamAudioSourceNode"

\* A Uint8Array is a function on 0..length-1; NoBuffer stands for null.
NoBuffer == <<>>
Uint8Array(len) == [i \in 0..(len - 1) |-> 0]
Length(a) == Cardinality(DOMAIN a)

\* The connections of the audio graph that carry signal.
Routing == [inputs |-> analyserInputs, out |-> analyserOut, gain |-> gainOut]

\* The record of an operation that has just run.
Op(name, a, res, cr, rt) ==
    [op |-> name, arg |-> a, outcome |-> res, create |-> cr,
     prevOp |-> lastOp.op, prevArg |-> lastOp.arg,
     heldBefore |-> currentMediaElement, sourceBefore |-> sourceNode,
     before |-> rt]

EmptyAudioData ==
    [frequencyData |-> "new", timeData |-> "new",
     rms |-> <<"quot", 0, 1>>, bass |-> <<"quot", 0, 1>>,
     mid |-> <<"quot", 0, 1>>, treble |-> <<"quot", 0, 1>>]

\* What a caller has read in an array it was handed: its first element.
Read(a) == IF Length(a) = 0 THEN <<>> ELSE <<a[0]>>

\* No AudioData has been kept yet.
NoSnapshot == [kept |-> FALSE, frequencyData |-> "new", timeData |-> "new",
               frequencyRead |-> <<>>, timeRead |-> <<>>]

\* There is no gain node, so no gain value; a new GainNode has gain 1.
NoGain == -1
DefaultGain == 1000

\* The constructor creates nothing.
NoneConstructed == [AudioContext |-> 0, AnalyserNode |-> 0, GainNode |-> 0]

InitEngine ==
    /\ audioContext = NULL
    /\ analyser = NULL
    /\ gainNode = NULL
    /\ sourceNode = NoNode
    /\ currentMediaElement = 0
    /\ dataArray = NoBuffer
    /\ timeArray = NoBuffer
    /\ ctxState = "none"
    /\ analyserInputs = {}
    /\ analyserOut = {}
    /\ gainOut = {}
    /\ constructed = NoneConstructed
    /\ gainValue = NoGain
    /\ wrapped = {}
    /\ pending = {}
    /\ micRequests = 0
    /\ lastData = EmptyAudioData
    /\ lastOp = [op |-> "none", arg |-> 0, outcome |-> "none", create |-> "none",
                 prevOp |-> "none", prevArg |-> 0, heldBefore |-> 0,
                 sourceBefore |-> NoNode,
                 before |-> [inputs |-> {}, out |-> {}, gain |-> {}]]

InitCallers ==
    /\ held = NoSnapshot

(***************************************************************************)
(* init(): creates the graph on the first call only.  A new AudioContext   *)
(* starts suspended or running, depending on the autoplay policy.          *)
(***************************************************************************)
\* An init() that builds the graph on every call.
InitGraph_always ==
    /\ audioContext' = CTX
    /\ analyser' = ANALYSER
    /\ gainNode' = GAIN
    /\ constructed' = [AudioContext |-> constructed.AudioContext + 1,
                       AnalyserNode |-> constructed.AnalyserNode + 1,
                       GainNode |-> constructed.GainNode + 1]
    /\ gainValue' = DefaultGain
    /\ gainOut' = {DESTINATION}
    /\ dataArray' = Uint8Array(frequencyBinCount)
    /\ timeArray' = Uint8Array(frequencyBinCount)

InitGraph ==
    IF audioContext = NULL
    THEN /\ audioContext' = CTX
         /\ analyser' = ANALYSER
         /\ gainNode' = GAIN
         /\ constructed' = [AudioContext |-> constructed.AudioContext + 1,
                            AnalyserNode |-> constructed.AnalyserNode + 1,
                            GainNode |-> constructed.GainNode + 1]
         /\ gainValue' = DefaultGain
         /\ gainOut' = {DESTINATION}
         /\ dataArray' = Uint8Array(frequencyBinCount)
         /\ timeArray' = Uint8Array(frequencyBinCount)
    ELSE UNCHANGED engineVars

\* audioContext.state once init() has run, st being the state of a new context.
StateAfterInit(st) == IF audioContext = NULL THEN st ELSE ctxState

NewContextStates == {"suspended", "running"}

init ==
    /\ InitGraph
    /\ \E st \in NewContextStates : ctxState' = StateAfterInit(st)
    /\ lastOp' = Op("init", 0, "returned", "none", Routing)
    /\ UNCHANGED <<routeVars, lastData>>

(***************************************************************************)
(* setVolume(val): sets the gain when there is a gain node.                *)
(***************************************************************************)
\* The positions of the volume slider, in thousandths.
Volumes == {0, 800}

\* A setVolume that builds the graph it needs.
setVolume_creating(val) ==
    /\ InitGraph_always
    /\ lastOp' = Op("setVolume", val, "returned", "none", Routing)
    /\ UNCHANGED <<ctxState, routeVars, lastData>>

setVolume(val) ==
    /\ gainValue' = IF gainNode # NULL THEN val ELSE gainValue
    /\ lastOp' = Op("setVolume", val, "returned", "none", Routing)
    /\ UNCHANGED <<audioContext, analyser, gainNode, dataArray, timeArray,
                   gainOut, constructed, ctxState, routeVars, lastData>>

(***************************************************************************)
(* Platform operations on the audio graph.                                 *)
(***************************************************************************)
\* AudioNode.disconnect(): removes every outgoing connection, never throws.
DisconnectAll(outs) == {}

\* AudioNode.disconnect(destination) throws InvalidAccessError when the node
\* is not connected to destination.
DisconnectThrows(outs, dest) == dest \notin outs
DisconnectFrom(outs, dest) == outs \ {dest}

\* createMediaElementSource(e) throws InvalidStateError when e already owns a
\* MediaElementAudioSourceNode.
CreateMediaElementSourceThrows(e) == e \in wrapped

(***************************************************************************)
(* connectAudioElement(audioElement)                                       *)
(***************************************************************************)
\* A variant that never recognises the element it holds.
isSameElement_never(e) == FALSE

isSameElement(e) == currentMediaElement = e

\* The first version of the method (lines 57-80): it disconnects the old
\* source and always asks the platform for a new one.
connectAudioElement_recreate(e) ==
    LET throws == CreateMediaElementSourceThrows(e)
        in1 == IF sourceNode # NoNode
               THEN analyserInputs \ {sourceNode} ELSE analyserInputs
    IN  /\ InitGraph
        /\ sourceNode' = IF throws THEN sourceNode ELSE ElementNode(e)
        /\ currentMediaElement' = IF throws THEN currentMediaElement ELSE e
        /\ wrapped' = wrapped \cup {e}
        /\ analyserInputs' = IF throws THEN in1 ELSE in1 \cup {ElementNode(e)}
        /\ analyserOut' = IF throws THEN analyserOut ELSE analyserOut \cup {GAIN}
        /\ ctxState' = "running"
        /\ lastOp' = Op("connectAudioElement", e, "returned",
                        IF throws THEN "threw" ELSE "created", Routing)
        /\ UNCHANGED <<pending, micRequests, lastData>>

connectAudioElement(e) ==
    LET \* if (!isSameElement && this.sourceNode) this.sourceNode.disconnect()
        in1 == IF ~isSameElement(e) /\ sourceNode # NoNode
               THEN analyserInputs \ {sourceNode} ELSE analyserInputs
        \* if (!isSameElement) try { create; remember } catch { warn }
        create == IF isSameElement(e) THEN "none"
                  ELSE IF CreateMediaElementSourceThrows(e) THEN "threw"
                  ELSE "created"
        src == IF create = "created" THEN ElementNode(e) ELSE sourceNode
    IN  /\ InitGraph
        /\ sourceNode' = src
        /\ currentMediaElement' = IF create = "created" THEN e
                                  ELSE currentMediaElement
        /\ wrapped' = IF create = "created" THEN wrapped \cup {e} ELSE wrapped
        \* if (this.sourceNode) { disconnect; connect; disconnect; connect }
        /\ IF src # NoNode
           THEN /\ analyserInputs' = (in1 \ {src}) \cup {src}
                /\ analyserOut' = DisconnectAll(analyserOut) \cup {GAIN}
           ELSE /\ analyserInputs' = in1
                /\ analyserOut' = analyserOut
        \* if (state === 'suspended') resume()
        /\ ctxState' = "running"
        /\ lastOp' = Op("connectAudioElement", e, "returned", create, Routing)
        /\ UNCHANGED <<pending, micRequests, lastData>>

(***************************************************************************)
(* connectMicrophone(): the part up to the await of getUserMedia, and the  *)
(* two continuations of the await.                                         *)
(***************************************************************************)
connectMicrophone ==
    /\ micRequests < MaxMicRequests
    /\ InitGraph
    /\ \E st \in NewContextStates : ctxState' = StateAfterInit(st)
    /\ IF DisconnectThrows(analyserOut, GAIN)
       THEN \* analyser.disconnect(gainNode) throws: the promise is rejected
            /\ lastOp' = Op("connectMicrophone", 0, "rejected", "none", Routing)
            /\ UNCHANGED <<routeVars>>
       ELSE /\ analyserOut' = DisconnectFrom(analyserOut, GAIN)
            /\ analyserInputs' = IF sourceNode # NoNode
                                 THEN analyserInputs \ {sourceNode}
                                 ELSE analyserInputs
            /\ micRequests' = micRequests + 1
            /\ pending' = pending \cup
                            {[id |-> micRequests + 1, before |-> Routing]}
            /\ lastOp' = Op("connectMicrophone", micRequests + 1, "pending",
                            "none", Routing)
            /\ UNCHANGED <<sourceNode, currentMediaElement, wrapped>>
    /\ UNCHANGED lastData

\* getUserMedia resolves with a stream: the call resumes after the await.
getUserMediaResolved(r) ==
    /\ r \in pending
    /\ sourceNode' = StreamNode(r.id)
    /\ analyserInputs' = analyserInputs \cup {StreamNode(r.id)}
    /\ ctxState' = "running"
    /\ pending' = pending \ {r}
    /\ lastOp' = Op("getUserMediaResolved", r.id, "resolved", "none", r.before)
    /\ UNCHANGED <<engineVars, currentMediaElement, analyserOut, wrapped,
                   micRequests, lastData>>

\* getUserMedia rejects: the catch block logs and rethrows.
getUserMediaRejected(r) ==
    /\ r \in pending
    /\ pending' = pending \ {r}
    /\ lastOp' = Op("getUserMediaRejected", r.id, "rejected", "none", r.before)
    /\ UNCHANGED <<engineVars, ctxState, sourceNode, currentMediaElement,
                   analyserInputs, analyserOut, wrapped, micRequests, lastData>>

(***************************************************************************)
(* resumeContext()                                                         *)
(***************************************************************************)
resumeContext ==
    /\ ctxState' = IF ctxState = "suspended" THEN "running" ELSE ctxState
    /\ lastOp' = Op("resumeContext", 0, "returned", "none", Routing)
    /\ UNCHANGED <<engineVars, routeVars, lastData>>

(***************************************************************************)
(* Numbers.  The band energies are quotients of integers and the rms is    *)
(* the square root of one; they are kept exact: <<"quot", n, d>> is n / d  *)
(* and <<"sqrt", n, d>> is Math.sqrt(n / d).                               *)
(***************************************************************************)
Quot(n, d) == <<"quot", n, d>>
SqrtQuot(n, d) == <<"sqrt", n, d>>

\* x is a number (not NaN) and x >= 0
NonNegative(x) == x[3] > 0 /\ x[2] >= 0
\* x = 0
IsZero(x) == x[3] > 0 /\ x[2] = 0
\* x = v, for an integer v
EqualsInt(x, v) ==
    /\ x[3] > 0
    /\ IF x[1] = "quot" THEN x[2] = v * x[3]
       ELSE v >= 0 /\ x[2] = v * v * x[3]

(***************************************************************************)
(* What the analyser can hand out.  A spectrum is a background level with  *)
(* one bin at another level; the bin is taken at both sides of each band   *)
(* boundary.  A waveform is a constant level.                              *)
(***************************************************************************)
Levels == {0, 255} \cup (1..MaxLevel)
SpikeBins == {0, 9, 10, 99, 100, frequencyBinCount - 1}
Spectrum(k, v, b) == [i \in 0..(frequencyBinCount - 1) |-> IF i = k THEN v ELSE b]
Spectra == {Spectrum(k, v, b) : k \in SpikeBins, v \in Levels, b \in Levels}
WaveLevels == {128, 255}
Waveforms == {[i \in 0..(frequencyBinCount - 1) |-> w] : w \in WaveLevels}

(***************************************************************************)
(* getAudioData()                                                          *)
(***************************************************************************)
\* A loop body that counts bin 10 as bass.
LoopBody_bassInclusive(d, i, acc) ==
    LET val == d[i]
    IN  [sum |-> acc.sum + val * val,
         bassSum |-> IF i <= 10 THEN acc.bassSum + val ELSE acc.bassSum,
         midSum |-> IF i > 10 /\ i < 100 THEN acc.midSum + val ELSE acc.midSum,
         trebleSum |-> IF i >= 100 THEN acc.trebleSum + val ELSE acc.trebleSum]

\* A loop body that accumulates the squares in the last branch only.
LoopBody_sumInElse(d, i, acc) ==
    LET val == d[i]
    IN  [sum |-> IF i < 100 THEN acc.sum ELSE acc.sum + val * val,
         bassSum |-> IF i < 10 THEN acc.bassSum + val ELSE acc.bassSum,
         midSum |-> IF i >= 10 /\ i < 100 THEN acc.midSum + val ELSE acc.midSum,
         trebleSum |-> IF i >= 100 THEN acc.trebleSum + val ELSE acc.trebleSum]

\* One iteration of the loop over the bins.
LoopBody(d, i, acc) ==
    LET val == d[i]
    IN  [sum |-> acc.sum + val * val,
         bassSum |-> IF i < 10 THEN acc.bassSum + val ELSE acc.bassSum,
         midSum |-> IF i < 10 THEN acc.midSum
                    ELSE IF i < 100 THEN acc.midSum + val ELSE acc.midSum,
         trebleSum |-> IF i < 10 THEN acc.trebleSum
                       ELSE IF i < 100 THEN acc.trebleSum
                       ELSE acc.trebleSum + val]

\* The iterations lo, lo+1, ..., hi-1 of the loop, in this order, started with
\* the accumulators acc.  The run is split in two halves so that the
\* evaluation nests to a depth of log2(hi - lo); the test on the accumulators
\* of the first half makes TLC compute them before the second half starts.
RECURSIVE Loop(_, _, _, _)
Loop(d, lo, hi, acc) ==
    IF hi <= lo THEN acc
    ELSE IF hi - lo = 1 THEN LoopBody(d, lo, acc)
    ELSE LET half == (lo + hi) \div 2
             first == Loop(d, lo, half, acc)
         IN  IF first.sum >= 0 THEN Loop(d, half, hi, first) ELSE first

\* Final values that divide the treble sum by the whole bin count.
Bands_trebleOverAll(d, binCount) ==
    LET acc == Loop(d, 0, binCount,
                    [sum |-> 0, bassSum |-> 0, midSum |-> 0, trebleSum |-> 0])
    IN  [rms |-> SqrtQuot(acc.sum, binCount),
         bass |-> Quot(acc.bassSum, 10),
         mid |-> Quot(acc.midSum, 90),
         treble |-> Quot(acc.trebleSum, binCount)]

\* Final values that divide the mid sum by the width of the bass band.
Bands_midOverTen(d, binCount) ==
    LET acc == Loop(d, 0, binCount,
                    [sum |-> 0, bassSum |-> 0, midSum |-> 0, trebleSum |-> 0])
    IN  [rms |-> SqrtQuot(acc.sum, binCount),
         bass |-> Quot(acc.bassSum, 10),
         mid |-> Quot(acc.midSum, 10),
         treble |-> Quot(acc.trebleSum, binCount - 100)]

\* The sums of the loop and the four values computed from them.
Bands(d, binCount) ==
    LET acc == Loop(d, 0, binCount,
                    [sum |-> 0, bassSum |-> 0, midSum |-> 0, trebleSum |-> 0])
    IN  [rms |-> SqrtQuot(acc.sum, binCount),
         bass |-> Quot(acc.bassSum, 10),
         mid |-> Quot(acc.midSum, 90),
         treble |-> Quot(acc.trebleSum, binCount - 100)]

\* Bands of every spectrum the analyser can hand out (evaluated once).
BandsOf == [d \in Spectra |-> Bands(d, frequencyBinCount)]

\* A guard that takes the graph to exist.
GraphMissing_never == FALSE

\* if (!this.analyser || !this.dataArray || !this.timeArray)
GraphMissing == analyser = NULL \/ dataArray = NoBuffer \/ timeArray = NoBuffer

getAudioData ==
    IF GraphMissing
    THEN /\ lastData' = EmptyAudioData
         /\ lastOp' = Op("getAudioData", 0, "returned", "none", Routing)
         /\ UNCHANGED <<engineVars, ctxState, routeVars>>
    ELSE IF analyser = NULL
    THEN \* analyser.getByteFrequencyData on null: TypeError
         /\ lastOp' = Op("getAudioData", 0, "threw", "none", Routing)
         /\ UNCHANGED <<engineVars, ctxState, routeVars, lastData>>
    ELSE \E d \in Spectra, t \in Waveforms :
         \* getByteFrequencyData / getByteTimeDomainData fill the buffers
         /\ dataArray' = d
         /\ timeArray' = t
         /\ lastData' = [frequencyData |-> "dataArray", timeData |-> "timeArray",
                         rms |-> BandsOf[d].rms, bass |-> BandsOf[d].bass,
                         mid |-> BandsOf[d].mid, treble |-> BandsOf[d].treble]
         /\ lastOp' = Op("getAudioData", 0, "returned", "none", Routing)
         /\ UNCHANGED <<audioContext, analyser, gainNode, gainOut, constructed,
                        gainValue, ctxState, routeVars>>

\* The array an AudioData field refers to.
ArrayOf(ref) == IF ref = "dataArray" THEN dataArray
                ELSE IF ref = "timeArray" THEN timeArray
                ELSE Uint8Array(0)

(***************************************************************************)
(* The visualizer component (src/components/VisualizerCanvas.tsx).  The    *)
(* file holds two versions of it: the canvas version (lines 37-692) with   *)
(* seven 2D modes, particle pools and phase accumulators, and the          *)
(* WebGL-aware version (lines 712-1699) with smoothing, beat detection, a  *)
(* history buffer and four modes drawn by a 3D child component, which      *)
(* runs a frame chain of its own (WireframeMatrix,                         *)
(* src/components/WebGLVisualizers.tsx lines 296-653).  A third version,   *)
(* with the aurora ribbons of Grid mode, is kept at the end of             *)
(* src/components/WebGLVisualizers.tsx.  build says which                  *)
(* version is mounted.  A change of a prop is one step: the render, the    *)
(* cleanups of the effects whose dependencies changed and the effects      *)
(* themselves, in the order of their definition.                           *)
(***************************************************************************)
CANVAS == "canvas version"
WEBGL == "WebGL-aware version"
\* The version kept in src/components/WebGLVisualizers.tsx (lines 996-1432),
\* with the kaleidoscope and the aurora ribbons of Grid mode.
GRID == "grid version"
Builds == {CANVAS, WEBGL, GRID}

\* The modes drawn by a 3D component: two of the four modes of isWebGLMode
\* (ParticleGalaxy and CrystalLattice are handled like PlasmaWave), and the
\* modes of the components of src/unnamed/part_006 and of
\* src/components/WebGLVisualizers.tsx, which the parent mounts in the same
\* way (NebulaStorm is handled like WireframeMatrix).
Components3D == {"WireframeMatrix", "AetherRings", "PrismShardField",
                 "FluxBloom", "FractalCosmos"}
WebGLModes == {"WireframeMatrix", "PlasmaWave"} \cup Components3D
\* The components that draw one fullscreen quad with a shader, and those
\* that draw an instanced mesh.
ShaderModes == {"FractalCosmos", "FluxBloom"}
InstancedModes == {"AetherRings", "PrismShardField"}
CanvasModes(b) ==
    IF b = CANVAS
    THEN {"Spectrogram", "Circular", "Waveform", "Kaleidoscope", "PulseTunnel",
          "TidalBloom", "VoxelOctopus"}
    ELSE IF b = GRID
    THEN {"Spectrogram", "Circular", "Waveform", "Kaleidoscope", "Grid"}
    ELSE {"Spectrogram", "Circular", "Waveform"}
Modes(b) == IF b = WEBGL THEN CanvasModes(b) \cup WebGLModes ELSE CanvasModes(b)

\* const isWebGLMode = [...].includes(mode)
isWebGLMode(b, m) == b = WEBGL /\ m \in WebGLModes

\* window.innerWidth x window.innerHeight
Sizes == {<<1280, 720>>, <<800, 600>>}

\* What getAudioData hands to a frame: whole-number band readings, and
\* frequencyData: this.dataArray, the buffer of the engine itself.
Reading(b, m, t) == [bass |-> b, mid |-> m, treble |-> t, rms |-> b,
                     frequencyData |-> "dataArray"]
\* useState<AudioData>({ frequencyData: new Uint8Array(0), ..., bass: 0 })
NoData == [Reading(0, 0, 0) EXCEPT !.frequencyData = "new"]
Signals == {Reading(0, 0, 0), Reading(50, 128, 150), Reading(180, 255, 255)}
\* A silent and a loud signal.
SteadySignals == {Reading(0, 0, 0), Reading(180, 255, 255)}
\* Bass lines for the beat detector.
BassReadings == {0, 50, 80, 90, 126, 180}
BassSignals == {Reading(b, 0, 0) : b \in BassReadings}

\* Band values inside the component are counted in thousandths of a reading
\* (the smoothed values are not whole numbers).
Thousandths(reading) == reading * 1000

\* Angles, phases and lives are counted in 1/255000000, which makes every
\* increment a + (value / 255) * b a whole number (a and b in thousandths,
\* value in thousandths of a reading).
ONE == 255000000
Milli(n) == n * (ONE \div 1000)
\* An increment without its base.
Step_audioOnly(a, value, b) == value * b

Step(a, value, b) == Milli(a) + value * b

\* The GPU objects init() creates: the renderer, the geometries and the
\* materials.
Allocated(m) ==
    CASE m = "WireframeMatrix" ->
           {"renderer", "terrainGeometry", "terrainMaterial", "gridGeometry",
            "gridMaterial", "sunGeometry", "sunMaterial", "starsGeometry",
            "starsMaterial"}
      [] m = "AetherRings" ->
           {"renderer", "ringGeometry", "ringMaterial", "glowPlaneGeometry",
            "glowPlaneMaterial"}
      [] m = "PrismShardField" -> {"renderer", "geometry", "material"}
      [] m \in ShaderModes -> {"renderer", "geometry", "material"}
      [] OTHER -> {"renderer"}

\* The objects the cleanup of the init effect calls dispose() on.
Disposed(m) ==
    CASE m = "AetherRings" -> {"renderer", "ringGeometry", "ringMaterial"}
      [] m = "PrismShardField" -> {"renderer", "geometry", "material"}
      [] OTHER -> {"renderer"}

\* The attributes init() computes for the first instance of an instanced
\* mesh, in thousandths, with Math.random() at 0.
NoInstance == <<>>
Created(m) ==
    CASE m = "AetherRings" ->
           [z |-> 0, baseScale |-> 600, speed |-> 600, hue |-> 190000,
            index |-> 0]
      [] m = "PrismShardField" ->
           [position |-> <<0, -8000, 0>>, spin |-> <<200, 200, 200>>,
            phase |-> 0, index |-> 0]
      [] OTHER -> NoInstance

\* What the forEach of animate writes into the data of the instance:
\* ring.z += (1.2 + bass * 2.2) * ring.speed; if (ring.z > 50) ring.z =
\* resetDepth, in thousandths.  The shards are only read.
forEachInstance(m, instance, data) ==
    IF m = "AetherRings"
    THEN LET moved == instance.z +
                      ((1200 * 255 + data.bass * 2200) * instance.speed)
                          \div (255 * 1000)
         IN  [instance EXCEPT !.z = IF moved > 50000 THEN -378000 ELSE moved]
    ELSE instance

\* A clock that runs with the bass.
Tick_audio(time, data) == time + FrameDelta + data.bass

\* timeRef.current += 0.016
Tick(time, data) == time + FrameDelta

\* The refs of a 3D component that is not mounted.
NoScene == [component |-> "none", timeRef |-> 0, frameRef |-> 0,
            rendererSize |-> <<0, 0>>, cameraAspect |-> <<0, 0>>,
            audioData |-> NoData, uResolution |-> <<0, 0>>,
            executed |-> 0, sample |-> NoData, frequencyData |-> NoData,
            instances |-> NoInstance, instanceMatrix |-> 0]
\* requestAnimationFrame: a handle that no pending callback and no ref holds.
Handles == {c.id : c \in callbacks} \cup {requestRef, scene.frameRef}
FreshHandle(used) == CHOOSE i \in 1..(Cardinality(used) + 1) : i \notin used
Callback(i, f, m, d) == [id |-> i, fn |-> f, mode |-> m, data |-> d]

\* A cancellation that is lost.
cancelAnimationFrame_lost(cbs, handle) == cbs

\* cancelAnimationFrame(handle); "if (ref.current)" skips a null ref.
cancelAnimationFrame(cbs, handle) == {c \in cbs : c.id # handle}

NoFrame == [fn |-> "none", mode |-> "none", data |-> Reading(0, 0, 0),
            calls |-> 0, passed |-> Reading(0, 0, 0), previousBass |-> 0,
            background |-> <<>>, drawn |-> {}]

\* useState(false), and no setIsPlaying yet.
NoRequest == [isPlaying |-> FALSE, kept |-> FALSE]

InitVisualizer ==
    /\ mode = "Spectrogram"
    /\ isPlaying = FALSE
    /\ windowSize = <<1280, 720>>
    /\ canvasSize = windowSize
    /\ requestRef = 0
    /\ callbacks = {}
    /\ frames = 0
    /\ rotationRef = 0
    /\ kaleidoscopeParticlesRef = <<>>
    /\ bubbleFieldRef = <<>>
    /\ waterPhaseRef = 0
    /\ octopusPulseRef = 0
    /\ smoothedBassRef = 0
    /\ smoothedMidRef = 0
    /\ smoothedTrebleRef = 0
    /\ beatDetectedRef = FALSE
    /\ lastBassRef = 0
    /\ historyRef = <<>>
    /\ auroraBandsRef = <<>>
    /\ audioData = NoData
    /\ queued = <<>>
    /\ scene = NoScene
    /\ undisposed = {}
    /\ lastFrame = NoFrame
    /\ lastRequest = NoRequest

\* The state after construction; the WebGL-aware version is the current one.
Init == InitEngine /\ InitCallers /\ InitVisualizer /\ build = WEBGL

(***************************************************************************)
(* Effects of the component.                                               *)
(***************************************************************************)
\* useEffect(() => { ... }, [mode]): the canvas version resets the pools,
\* the phases and the rotation; the grid version the particles, the ribbons
\* and the rotation; the WebGL-aware version the rotation and the history.
ResetEffect_rotationOnly ==
    /\ rotationRef' = 0
    /\ UNCHANGED <<kaleidoscopeParticlesRef, bubbleFieldRef, waterPhaseRef,
                   octopusPulseRef, historyRef,
                                        auroraBandsRef>>

ResetEffect ==
    IF build = CANVAS
    THEN /\ kaleidoscopeParticlesRef' = <<>>
         /\ bubbleFieldRef' = <<>>
         /\ waterPhaseRef' = 0
         /\ octopusPulseRef' = 0
         /\ rotationRef' = 0
         /\ UNCHANGED <<historyRef, auroraBandsRef>>
    ELSE IF build = GRID
    THEN /\ kaleidoscopeParticlesRef' = <<>>
         /\ auroraBandsRef' = <<>>
         /\ rotationRef' = 0
         /\ UNCHANGED <<bubbleFieldRef, waterPhaseRef, octopusPulseRef,
                        historyRef>>
    ELSE /\ rotationRef' = 0
         /\ historyRef' = <<>>
         /\ UNCHANGED <<kaleidoscopeParticlesRef, bubbleFieldRef, waterPhaseRef,
                        octopusPulseRef, auroraBandsRef>>

\* The cleanup of the scheduling effect: cancelAnimationFrame(requestRef).
SchedulingCleanup_keep(cbs) == cbs

SchedulingCleanup(cbs) == cancelAnimationFrame(cbs, requestRef)

\* The cleanups of the child's effects: cancelAnimationFrame(frameRef).
PlayCleanup(cbs) == cancelAnimationFrame(cbs, scene.frameRef)

\* The state update queued by setAudioData takes effect with the next render.
Rendered == IF queued = <<>> THEN audioData ELSE queued[1]

\* The render and the effects that follow new props p (isPlaying) and m
\* (mode): the scheduling effect sizes the canvas and requests a draw when
\* playing; a WebGL mode mounts its component, whose play effect requests an
\* animate when playing.  remount: the child component is a new one.
Commit(p, m, remount) ==
    LET cleaned == PlayCleanup(SchedulingCleanup(callbacks))
        h1 == FreshHandle(Handles)
        h2 == FreshHandle(Handles \cup {h1})
        gl == isWebGLMode(build, m)
        old == IF remount THEN NoScene ELSE scene
        \* if (isPlaying) request else if (ref.current) cancel, in both effects
        stopped == cancelAnimationFrame(cancelAnimationFrame(cleaned, requestRef),
                                        scene.frameRef)
        draws == {Callback(h1, "draw", m, NoData)}
        animates == IF gl THEN {Callback(h2, "animate", m, Rendered)} ELSE {}
    IN  /\ audioData' = Rendered
        /\ queued' = <<>>
        /\ canvasSize' = windowSize
        /\ requestRef' = IF p THEN h1 ELSE requestRef
        /\ scene' = IF ~gl THEN NoScene
                    ELSE [component |-> m,
                          timeRef |-> old.timeRef,
                          frameRef |-> IF p THEN h2 ELSE old.frameRef,
                          rendererSize |-> IF remount THEN windowSize
                                           ELSE old.rendererSize,
                          cameraAspect |-> IF remount /\ m \notin ShaderModes
                                           THEN windowSize
                                           ELSE old.cameraAspect,
                          audioData |-> Rendered,
                          uResolution |-> IF remount /\ m \in ShaderModes
                                          THEN windowSize
                                          ELSE old.uResolution,
                          executed |-> old.executed,
                          sample |-> old.sample,
                          frequencyData |-> old.frequencyData,
                          instances |-> IF remount THEN Created(m)
                                        ELSE old.instances,
                          instanceMatrix |-> old.instanceMatrix]
        \* the cleanup of the init effect of the component that goes
        /\ undisposed' = IF remount /\ scene.component # "none"
                         THEN Allocated(scene.component) \
                                  Disposed(scene.component)
                         ELSE undisposed
        /\ callbacks' = IF p THEN cleaned \cup draws \cup animates ELSE stopped

\* A mode change whose scheduling effect requests a frame whether playing or
\* not.
setMode_requesting(m) ==
    /\ m \in Modes(build) /\ m # mode
    /\ mode' = m
    /\ ResetEffect
    /\ Commit(TRUE, m, TRUE)
    /\ UNCHANGED <<build, lastRequest, isPlaying, windowSize, frames, smoothVars,
                   lastFrame>>

\* The parent passes a new mode.
setMode(m) ==
    /\ m \in Modes(build) /\ m # mode
    /\ mode' = m
    /\ ResetEffect
    /\ Commit(isPlaying, m, TRUE)
    /\ UNCHANGED <<build, lastRequest, isPlaying, windowSize, frames, smoothVars, lastFrame>>

\* The parent passes a new isPlaying.
setIsPlaying(p) ==
    /\ p # isPlaying
    /\ isPlaying' = p
    /\ lastRequest' = [isPlaying |-> p, kept |-> FALSE]
    /\ Commit(p, mode, FALSE)
    /\ UNCHANGED <<build, mode, windowSize, frames, animationVars, smoothVars,
                   lastFrame>>

\* The body of the two play effects run on a render that changed none of
\* their dependencies, without the cleanup of the run before.
keepIsPlaying_rerun(p) ==
    LET h1 == FreshHandle(Handles)
        h2 == FreshHandle(Handles \cup {h1})
        gl == scene.component # "none"
        draws == {Callback(h1, "draw", mode, NoData)}
        animates == IF gl THEN {Callback(h2, "animate", mode, audioData)}
                    ELSE {}
    IN  /\ p = isPlaying
        /\ lastRequest' = [isPlaying |-> p, kept |-> TRUE]
        /\ requestRef' = IF p THEN h1 ELSE requestRef
        /\ scene' = IF p /\ gl THEN [scene EXCEPT !.frameRef = h2] ELSE scene
        /\ callbacks' =
               IF p THEN callbacks \cup draws \cup animates
               ELSE cancelAnimationFrame(
                        cancelAnimationFrame(callbacks, requestRef),
                        scene.frameRef)
        /\ UNCHANGED <<build, mode, isPlaying, windowSize, canvasSize, frames,
                       animationVars, smoothVars, audioData, queued,
                       undisposed, lastFrame>>

\* The parent calls setIsPlaying with the value isPlaying has: the props and
\* the dependencies [mode, isPlaying, audioEngine] and [isPlaying, animate]
\* are the ones of the last render, so no cleanup and no effect runs.
keepIsPlaying(p) ==
    /\ p = isPlaying
    /\ lastRequest' = [isPlaying |-> p, kept |-> TRUE]
    /\ UNCHANGED <<build, mode, isPlaying, windowSize, canvasSize, requestRef,
                   callbacks, frames, animationVars, smoothVars, audioData,
                   queued, scene, undisposed, lastFrame>>

\* A render whose play effect requests the new animate and leaves the
\* request of the old one pending.
renderAudioData_keep ==
    /\ queued # <<>>
    /\ audioData' = Rendered
    /\ queued' = <<>>
    /\ IF scene.component = "none"
       THEN UNCHANGED <<scene, callbacks>>
       ELSE LET h == FreshHandle(Handles)
            IN  /\ scene' = [scene EXCEPT
                                !.frameRef = IF isPlaying THEN h ELSE @,
                                !.audioData = Rendered]
                /\ callbacks' =
                       IF isPlaying
                       THEN callbacks \cup
                            {Callback(h, "animate", scene.component, Rendered)}
                       ELSE callbacks
    /\ UNCHANGED <<build, lastRequest, mode, isPlaying, windowSize, canvasSize,
                   requestRef, frames, animationVars, smoothVars, undisposed,
                   lastFrame>>

\* The render that follows setAudioData: the child gets a new audioData, its
\* animate callback is a new function and its play effect runs again.
renderAudioData ==
    /\ queued # <<>>
    /\ audioData' = Rendered
    /\ queued' = <<>>
    /\ IF scene.component = "none"
       THEN UNCHANGED <<scene, callbacks>>
       ELSE LET h == FreshHandle(Handles)
            IN  /\ scene' = [scene EXCEPT
                                !.frameRef = IF isPlaying THEN h ELSE @,
                                !.audioData = Rendered]
                /\ callbacks' =
                       IF isPlaying
                       THEN PlayCleanup(callbacks) \cup
                            {Callback(h, "animate", scene.component, Rendered)}
                       ELSE cancelAnimationFrame(PlayCleanup(callbacks),
                                                 scene.frameRef)
    /\ UNCHANGED <<build, lastRequest, mode, isPlaying, windowSize, canvasSize, requestRef,
                   frames, animationVars, smoothVars, undisposed, lastFrame>>

\* A handler that resizes the renderer and leaves the uniform as it is.
handleResize_rendererOnly(s, sz) ==
    IF s.component = "none" THEN s
    ELSE IF s.component \in ShaderModes THEN [s EXCEPT !.rendererSize = sz]
    ELSE [s EXCEPT !.rendererSize = sz, !.cameraAspect = sz]

\* handleResize() of the mounted 3D component: the camera aspect and the
\* renderer size, or, with a fullscreen quad, the renderer size and the
\* resolution uniform.
handleResize(s, sz) ==
    IF s.component = "none" THEN s
    ELSE IF s.component \in ShaderModes
    THEN [s EXCEPT !.rendererSize = sz, !.uResolution = sz]
    ELSE [s EXCEPT !.rendererSize = sz, !.cameraAspect = sz]

\* The resize listeners: resize() of the canvas and handleResize() of the
\* mounted 3D component.
resize_resetting(sz) ==
    /\ sz # windowSize
    /\ windowSize' = sz
    /\ canvasSize' = sz
    /\ scene' = IF scene.component = "none" THEN scene
                ELSE [scene EXCEPT !.rendererSize = sz, !.cameraAspect = sz,
                                   !.timeRef = 0]
    /\ rotationRef' = 0
    /\ UNCHANGED <<build, lastRequest, mode, isPlaying, requestRef, callbacks, frames,
                   kaleidoscopeParticlesRef, bubbleFieldRef, waterPhaseRef,
                   octopusPulseRef, historyRef, auroraBandsRef, smoothVars,
                   audioData, queued, undisposed, lastFrame>>

resize(sz) ==
    /\ sz # windowSize
    /\ windowSize' = sz
    /\ canvasSize' = sz
    /\ scene' = handleResize(scene, sz)
    /\ UNCHANGED <<build, lastRequest, mode, isPlaying, requestRef, callbacks, frames,
                   animationVars, smoothVars, audioData, queued, undisposed,
                   lastFrame>>

(***************************************************************************)
(* The frame of the WebGL-aware version: smoothing and beat detection.     *)
(***************************************************************************)
\* current + (target - current) * factor, factor = num / den, in thousandths
\* of a reading (the product is cut to a whole number of thousandths).
smoothValue(current, target, num, den) ==
    current + ((target - current) * num) \div den

\* lastBassRef.current * threshold is a double product.  For a whole
\* reading the double 1.4 * last lies below the exact product 14 * last / 10
\* at these readings among the multiples of 5 (elsewhere the rounding does
\* not change the comparison with a whole reading).
ProductRoundsBelow == {45, 85, 90, 165, 170, 175, 180}

\* bass > lastBassRef.current * threshold
ExceedsProduct(bass, last) ==
    \/ 10 * bass > 14 * last
    \/ 10 * bass = 14 * last /\ last \in ProductRoundsBelow

\* A detector that remembers a reading only when it reports a beat.
detectBeat_keepOnQuiet(bass) ==
    LET isBeat == ExceedsProduct(bass, lastBassRef) /\ bass > 120
    IN  [isBeat |-> isBeat, lastBass |-> IF isBeat THEN bass ELSE lastBassRef]

\* detectBeat(bass): the verdict and the new lastBassRef.current
detectBeat(bass) ==
    LET isBeat == ExceedsProduct(bass, lastBassRef) /\ bass > 120
    IN  [isBeat |-> isBeat, lastBass |-> bass]

(***************************************************************************)
(* The renderers, as far as they change the state of the component.        *)
(***************************************************************************)
Min(a, b) == IF a < b THEN a ELSE b
\* A test that keeps a particle whose life is 0.
Alive_atZero(p) == p.life >= 0

\* if (p.life <= 0) splice; filter(b => b.life > 0)
Alive(p) == p.life > 0
Aged(pool, by) == [i \in 1..Len(pool) |-> [life |-> pool[i].life - by]]
Spawned(n) == [i \in 1..n |-> [life |-> ONE]]

\* Math.random() < p with 0 < p < 1 can go either way.
SpawnChoices(m) == IF m \in {"TidalBloom", "VoxelOctopus"} THEN BOOLEAN ELSE {FALSE}

\* The capacity of the bubble pool of TidalBloom.
capacity == 120

\* A spawn count that rounds up, from treble 100 on.
particlesToSpawn_roundedUp(treble) ==
    IF treble > 100 THEN Min((treble - 100 + 39) \div 40, 3) ELSE 0

\* if (data.treble > 110)
\*     particlesToSpawn = Math.min(Math.floor((data.treble - 100) / 40), 3)
particlesToSpawn(treble) ==
    IF treble > 110 THEN Min((treble - 100) \div 40, 3) ELSE 0

\* A pool that always has room.
hasRoom_always(pool) == TRUE

\* bubbleFieldRef.current.length < 120
hasRoom(pool) == Len(pool) < capacity

\* A push that never evicts.
pushed_unbounded(buffer, entry, max) == Append(buffer, entry)

\* buffer.push(entry); if (buffer.length > max) buffer.shift()
pushed(buffer, entry, max) ==
    LET longer == Append(buffer, entry)
    IN  IF Len(longer) > max THEN Tail(longer) ELSE longer

\* Array.from({ length: 4 }) ribbons of Array.from({ length: 40 }) points
\* each; a point is named by the frame that pushed it, 0 for the first
\* forty.  Math.random() * Math.PI * 2 is 0 here.
NewBands ==
    [i \in 1..4 |-> [points |-> [j \in 1..40 |-> 0],
                     hue |-> 180 + (i - 1) * 35,
                     sway |-> 0]]

\* const maxPoints = 140
maxPoints == 140

\* The renderers of the canvas version (lines 58-612) and of the grid
\* version (WebGLVisualizers.tsx lines 1014-1358), whose renderCircular and
\* renderKaleidoscope are those of the canvas version.
RenderCanvas(m, data, spawn) ==
    LET mid == Thousandths(data.mid)
        treble == Thousandths(data.treble)
    IN  CASE m = "Circular" ->
               /\ rotationRef' = rotationRef + Step(5, mid, 10)
               /\ UNCHANGED <<kaleidoscopeParticlesRef, bubbleFieldRef,
                              waterPhaseRef, octopusPulseRef, historyRef,
                                        auroraBandsRef>>
          [] m = "Kaleidoscope" ->
               LET pool == kaleidoscopeParticlesRef \o
                               Spawned(particlesToSpawn(data.treble))
               IN  /\ kaleidoscopeParticlesRef' =
                          SelectSeq(Aged(pool, Milli(20)), Alive)
                   /\ rotationRef' = rotationRef + Step(2, treble, 15)
                   /\ UNCHANGED <<bubbleFieldRef, waterPhaseRef,
                                  octopusPulseRef, historyRef,
                                        auroraBandsRef>>
          [] m = "PulseTunnel" ->
               /\ rotationRef' = rotationRef + Step(10, mid, 20)
               /\ UNCHANGED <<kaleidoscopeParticlesRef, bubbleFieldRef,
                              waterPhaseRef, octopusPulseRef, historyRef,
                                        auroraBandsRef>>
          [] m = "TidalBloom" ->
               LET pool == IF hasRoom(bubbleFieldRef) /\ spawn
                           THEN bubbleFieldRef \o Spawned(1)
                           ELSE bubbleFieldRef
               IN  /\ waterPhaseRef' = waterPhaseRef + Step(10, mid, 30)
                   /\ bubbleFieldRef' =
                          Aged(SelectSeq(pool, Alive), Step(4, treble, 10))
                   /\ UNCHANGED <<rotationRef, kaleidoscopeParticlesRef,
                                  octopusPulseRef, historyRef,
                                        auroraBandsRef>>
          [] m = "VoxelOctopus" ->
               LET pool == IF spawn THEN bubbleFieldRef \o Spawned(1)
                           ELSE bubbleFieldRef
               IN  /\ octopusPulseRef' = octopusPulseRef + Step(10, mid, 30)
                   /\ bubbleFieldRef' =
                          Aged(SelectSeq(pool, Alive), Step(8, treble, 15))
                   /\ UNCHANGED <<rotationRef, kaleidoscopeParticlesRef,
                                  waterPhaseRef, historyRef,
                                        auroraBandsRef>>
          [] m = "Grid" ->
               LET bands == IF Len(auroraBandsRef) = 0 THEN NewBands
                            ELSE auroraBandsRef
               IN  /\ auroraBandsRef' =
                          [i \in 1..Len(bands) |->
                              [bands[i] EXCEPT
                                  !.points = pushed(@, frames + 1, maxPoints),
                                  !.sway = @ + Step(10, treble, 20)]]
                   /\ UNCHANGED <<rotationRef, kaleidoscopeParticlesRef,
                                  bubbleFieldRef, waterPhaseRef,
                                  octopusPulseRef, historyRef>>
          [] OTHER -> UNCHANGED animationVars

\* The renderers of the WebGL-aware version (lines 764-1041); mid is the
\* smoothed value of this frame.
RenderSmoothed(m, data, mid) ==
    CASE m = "Spectrogram" ->
           /\ historyRef' = pushed(historyRef, frames + 1, maxHistory)
           /\ UNCHANGED <<rotationRef, kaleidoscopeParticlesRef,
                          bubbleFieldRef, waterPhaseRef, octopusPulseRef,
                          auroraBandsRef>>
      [] m = "Circular" ->
           /\ rotationRef' = rotationRef + Step(4, mid, 15)
           /\ UNCHANGED <<kaleidoscopeParticlesRef, bubbleFieldRef,
                          waterPhaseRef, octopusPulseRef, historyRef,
                                        auroraBandsRef>>
      [] OTHER -> UNCHANGED animationVars

(***************************************************************************)
(* What a tick paints.  A background operation covers the whole surface:   *)
(* "clear" is clearRect, "fill" a fillRect with an opaque style, "overlay" *)
(* a fillRect with a translucent style.                                    *)
(***************************************************************************)
\* "Context clearing logic per mode" of draw
DrawBackground(b, m) ==
    IF b = CANVAS
    THEN IF m \in {"Kaleidoscope", "TidalBloom"} THEN <<"overlay">>
         ELSE <<"clear">>
    ELSE IF b = GRID
    THEN IF m = "Kaleidoscope" THEN <<"overlay">>
         ELSE IF m = "Grid" THEN <<"clear">>
         ELSE <<>>
    ELSE IF isWebGLMode(b, m) THEN <<>>
    ELSE IF m = "Circular" THEN <<"overlay">>
    ELSE <<"clear">>

\* The background operations of the renderers.
RenderBackground(b, m) ==
    IF b = WEBGL
    THEN CASE m = "Spectrogram" -> <<"overlay">>
           [] m = "Circular" -> <<"overlay">>
           [] m = "Waveform" -> <<"fill">>
           [] OTHER -> <<>>
    ELSE CASE m = "Spectrogram" -> <<"overlay">>
           [] m = "Circular" -> <<"clear">>
           [] m = "Waveform" -> <<"clear", "fill">>
           [] m = "Kaleidoscope" -> <<>>
           [] m = "PulseTunnel" -> <<"clear", "fill">>
           [] m = "TidalBloom" -> <<"fill", "overlay">>
           [] m = "VoxelOctopus" -> <<"fill">>
           [] m = "Grid" -> <<"fill">>
           [] OTHER -> <<>>

Background(b, m) == DrawBackground(b, m) \o RenderBackground(b, m)

\* The lives of the particles a tick draws: the kaleidoscope draws the pool
\* after its removal loop, the bubble modes draw each bubble inside the loop
\* that ages it.
LivesOf(pool) == {pool[i].life : i \in 1..Len(pool)}
LivesDrawn(m) ==
    IF m = "Kaleidoscope" THEN LivesOf(kaleidoscopeParticlesRef')
    ELSE IF m \in {"TidalBloom", "VoxelOctopus"} THEN LivesOf(bubbleFieldRef')
    ELSE {}

(***************************************************************************)
(* draw: one tick of the canvas frame loop.  c is the pending callback     *)
(* that runs, data what getAudioData returns to it.  The callback draws    *)
(* the mode of the render that requested it.                               *)
(***************************************************************************)
\* A frame of the WebGL-aware version that ends without a request in a
\* WebGL mode.
Rescheduled_canvasOnly(c, h) ==
    IF isWebGLMode(build, c.mode) THEN <<requestRef, callbacks \ {c}>>
    ELSE <<h, (callbacks \ {c}) \cup {Callback(h, "draw", c.mode, NoData)}>>

\* requestRef.current = requestAnimationFrame(draw), on every path
Rescheduled(c, h) ==
    <<h, (callbacks \ {c}) \cup {Callback(h, "draw", c.mode, NoData)}>>

\* A frame whose renderer reads the engine a second time.
Sampled_twice(data) ==
    [first |-> data, calls |-> 2, passed |-> data]

\* const data = audioEngine.getAudioData(); the renderer gets data
Sampled(data) ==
    [first |-> data, calls |-> 1, passed |-> data]

draw(c, data, spawn) ==
    /\ c.fn = "draw"
    /\ frames' = frames + 1
    /\ LET next == Rescheduled(c, FreshHandle(Handles))
           got == Sampled(data)
           beat == detectBeat(got.first.bass)
           mid == smoothValue(smoothedMidRef, Thousandths(got.first.mid), 15, 100)
       IN  /\ requestRef' = next[1]
           /\ callbacks' = next[2]
           /\ IF build # WEBGL
              THEN /\ RenderCanvas(c.mode, got.passed, spawn)
                   /\ UNCHANGED <<smoothVars, queued>>
              ELSE /\ queued' = <<got.first>>
                   /\ smoothedBassRef' =
                          smoothValue(smoothedBassRef,
                                      Thousandths(got.first.bass), 20, 100)
                   /\ smoothedMidRef' = mid
                   /\ smoothedTrebleRef' =
                          smoothValue(smoothedTrebleRef,
                                      Thousandths(got.first.treble), 18, 100)
                   /\ beatDetectedRef' = beat.isBeat
                   /\ lastBassRef' = beat.lastBass
                   /\ IF isWebGLMode(build, c.mode)
                      THEN UNCHANGED animationVars
                      ELSE RenderSmoothed(c.mode, got.passed, mid)
           /\ lastFrame' = [fn |-> "draw", mode |-> c.mode, data |-> got.first,
                            calls |-> got.calls,
                            passed |-> IF isWebGLMode(build, c.mode) THEN NoData
                                       ELSE got.passed,
                            previousBass |-> lastFrame.data.bass,
                            background |-> Background(build, c.mode),
                            drawn |-> LivesDrawn(c.mode)]
    /\ UNCHANGED <<build, lastRequest, mode, isPlaying, windowSize, canvasSize, scene,
                   undisposed, audioData>>

(***************************************************************************)
(* animate: one tick of the frame loop of the 3D component.  The callback  *)
(* reads the audioData of the render that created it.                      *)
(***************************************************************************)
\* The read whose magnitudes audioData.frequencyData[i] yields: the array of
\* the initial state is empty and its own (?? 0 for every index); the array
\* of a read is the buffer of the engine, which holds what the last
\* getAudioData wrote.
frequencyData(data) ==
    IF data.frequencyData = "new" THEN data ELSE lastFrame.data

animate(c) ==
    /\ c.fn = "animate"
    /\ LET h == FreshHandle(Handles)
       IN  /\ scene' = [scene EXCEPT
                            !.timeRef = Tick(@, c.data),
                            !.frameRef = h,
                            !.executed = @ + 1,
                            !.sample = c.data,
                            !.frequencyData = frequencyData(c.data),
                            !.instances = forEachInstance(c.mode, @, c.data),
                            !.instanceMatrix =
                                IF c.mode \in InstancedModes
                                THEN Tick(scene.timeRef, c.data) ELSE @]
           /\ callbacks' = (callbacks \ {c}) \cup
                               {Callback(h, "animate", c.mode, c.data)}
    /\ UNCHANGED <<build, lastRequest, mode, isPlaying, windowSize, canvasSize, requestRef,
                   frames, animationVars, smoothVars, audioData, queued,
                   undisposed, lastFrame>>

\* Ticks counted against the bound of a behaviour: the draws so far and the
\* animates of the mounted component.
Ticks == frames + scene.timeRef \div FrameDelta

engineState == <<audioContext, analyser, gainNode, sourceNode,
                 currentMediaElement, dataArray, timeArray, ctxState,
                 analyserInputs, analyserOut, gainOut, constructed, gainValue,
                 wrapped, pending, micRequests, lastData, lastOp, held>>

InitVisualizers == InitEngine /\ InitCallers /\ InitVisualizer /\ build \in Builds

\* The modes of the versions of the component, as their draw dispatches.
FrameModes(b) ==
    IF b = WEBGL THEN CanvasModes(b) \cup {"WireframeMatrix", "PlasmaWave"}
    ELSE CanvasModes(b)

NextVisualizer ==
    \/ \E m \in FrameModes(build) : setMode(m) /\ UNCHANGED engineState
    \/ \E p \in BOOLEAN : setIsPlaying(p) /\ UNCHANGED engineState
    \/ \E sz \in Sizes : resize(sz) /\ UNCHANGED engineState
    \/ renderAudioData /\ UNCHANGED engineState
    \/ \E c \in callbacks, data \in Signals, spawn \in BOOLEAN :
           /\ Ticks < MaxFrames
           /\ spawn \in SpawnChoices(c.mode)
           /\ draw(c, data, spawn)
           /\ UNCHANGED engineState
    \/ \E c \in callbacks :
           Ticks < MaxFrames /\ animate(c) /\ UNCHANGED engineState

SpecVisualizer == InitVisualizers /\ [][NextVisualizer]_vars

\* Play and pause requested at any time, also when nothing changes: every
\* version of the component, in a 2D mode or with a 3D component mounted.
PlayModes == {"Spectrogram", "Circular", "AetherRings"}

NextPlay ==
    \/ \E m \in PlayModes : setMode(m) /\ UNCHANGED engineState
    \/ \E p \in BOOLEAN : setIsPlaying(p) /\ UNCHANGED engineState
    \/ \E p \in BOOLEAN : keepIsPlaying(p) /\ UNCHANGED engineState
    \/ renderAudioData /\ UNCHANGED engineState
    \/ \E c \in callbacks, data \in SteadySignals :
           Ticks < MaxFrames /\ draw(c, data, FALSE) /\ UNCHANGED engineState
    \/ \E c \in callbacks :
           Ticks < MaxFrames /\ animate(c) /\ UNCHANGED engineState

SpecPlay == InitVisualizers /\ [][NextPlay]_vars

\* The beat detector on its own: the WebGL-aware version in its first mode,
\* played, paused and fed every bass line.
NextBeat ==
    \/ \E p \in BOOLEAN : setIsPlaying(p) /\ UNCHANGED engineState
    \/ renderAudioData /\ UNCHANGED engineState
    \/ \E c \in callbacks, data \in BassSignals :
           Ticks < MaxFrames /\ draw(c, data, FALSE) /\ UNCHANGED engineState

SpecBeat == Init /\ [][NextBeat]_vars

\* The 3D components: the WebGL-aware version switches between them and a
\* 2D mode, plays, pauses and is resized.
Next3D ==
    \/ \E m \in Components3D \cup {"Spectrogram"} :
           setMode(m) /\ UNCHANGED engineState
    \/ \E p \in BOOLEAN : setIsPlaying(p) /\ UNCHANGED engineState
    \/ \E sz \in Sizes : resize(sz) /\ UNCHANGED engineState
    \/ renderAudioData /\ UNCHANGED engineState
    \/ \E c \in callbacks, data \in SteadySignals :
           Ticks < MaxFrames /\ draw(c, data, FALSE) /\ UNCHANGED engineState
    \/ \E c \in callbacks :
           Ticks < MaxFrames /\ animate(c) /\ UNCHANGED engineState

Spec3D == Init /\ [][Next3D]_vars

\* A long run: a version of the component is given a 2D mode, then played on
\* a steady signal, silent or loud, for MaxRun frames.  After the first
\* MaxFrames frames every Math.random() test of a bubble mode passes.
RunSpawn(m) ==
    IF frames < MaxFrames THEN SpawnChoices(m)
    ELSE {b \in SpawnChoices(m) : b = (m \in {"TidalBloom", "VoxelOctopus"})}

NextLongRun ==
    \/ \E m \in CanvasModes(build) :
           /\ frames = 0 /\ ~isPlaying /\ mode = "Spectrogram"
           /\ setMode(m)
           /\ UNCHANGED engineState
    \/ frames = 0 /\ setIsPlaying(TRUE) /\ UNCHANGED engineState
    \/ renderAudioData /\ UNCHANGED engineState
    \/ \E c \in callbacks, data \in SteadySignals, spawn \in BOOLEAN :
           /\ frames < MaxRun
           /\ frames > 0 => data = lastFrame.data
           /\ spawn \in RunSpawn(c.mode)
           /\ draw(c, data, spawn)
           /\ UNCHANGED engineState

SpecLongRun == InitVisualizers /\ [][NextLongRun]_vars

\* The kaleidoscope under every treble reading: the canvas version or the
\* grid version in Kaleidoscope mode, played and paused on a steady signal.
TrebleSignals == {Reading(0, 0, t) : t \in 0..255}

NextSparks ==
    \/ frames = 0 /\ setMode("Kaleidoscope") /\ UNCHANGED engineState
    \/ \E p \in BOOLEAN : setIsPlaying(p) /\ UNCHANGED engineState
    \/ \E c \in callbacks, data \in TrebleSignals :
           /\ Ticks < MaxFrames
           /\ frames > 0 => data = lastFrame.data
           /\ draw(c, data, FALSE)
           /\ UNCHANGED engineState

InitSparks ==
    InitEngine /\ InitCallers /\ InitVisualizer /\ build \in {CANVAS, GRID}

SpecSparks == InitSparks /\ [][NextSparks]_vars

Next ==
    \/ init /\ UNCHANGED callerVars
    \/ \E e \in Elements : connectAudioElement(e) /\ UNCHANGED callerVars
    \/ connectMicrophone /\ UNCHANGED callerVars
    \/ \E r \in pending : getUserMediaResolved(r) /\ UNCHANGED callerVars
    \/ \E r \in pending : getUserMediaRejected(r) /\ UNCHANGED callerVars
    \/ resumeContext /\ UNCHANGED callerVars

Spec == Init /\ [][Next]_vars

\* The volume slider moved at any time between the calls that build and
\* route the graph.
NextVolume ==
    \/ init /\ UNCHANGED callerVars
    \/ \E e \in Elements : connectAudioElement(e) /\ UNCHANGED callerVars
    \/ connectMicrophone /\ UNCHANGED callerVars
    \/ \E r \in pending : getUserMediaResolved(r) /\ UNCHANGED callerVars
    \/ \E val \in Volumes : setVolume(val) /\ UNCHANGED callerVars

SpecVolume == Init /\ [][NextVolume]_vars

\* The engine as the frame loop uses it: created once, then sampled.
NextData ==
    \/ init /\ UNCHANGED callerVars
    \/ getAudioData /\ UNCHANGED callerVars

SpecData == Init /\ [][NextData]_vars

(***************************************************************************)
(* The frame loop keeps what getAudioData returned: draw hands the object  *)
(* to React state (const data = audioEngine.getAudioData();                *)
(* setAudioData(data)), where it outlives the frame.                       *)
(***************************************************************************)
setAudioData ==
    /\ lastOp.op = "getAudioData" /\ lastOp.outcome = "returned"
    /\ held' = [kept |-> TRUE,
                frequencyData |-> lastData.frequencyData,
                timeData |-> lastData.timeData,
                frequencyRead |-> Read(ArrayOf(lastData.frequencyData)),
                timeRead |-> Read(ArrayOf(lastData.timeData))]
    /\ UNCHANGED <<engineVars, ctxState, routeVars, lastData, lastOp>>

NextSnapshot ==
    \/ init /\ UNCHANGED callerVars
    \/ getAudioData /\ UNCHANGED callerVars
    \/ setAudioData /\ UNCHANGED visualizerVars

SpecSnapshot == Init /\ [][NextSnapshot]_vars

(***************************************************************************)
(* Properties of the routing.                                              *)
(***************************************************************************)
\* C1: the microphone signal never reaches the output sink: whenever a
\* microphone source node is connected to the analyser, the analyser is not
\* connected to the gain node.
C1_MicNeverRoutedToOutput ==
    \A n \in analyserInputs : IsStreamNode(n) => GAIN \notin analyserOut

\* C2: after connectAudioElement(e) returns, the media-element source node of
\* e is connected to the analyser and the analyser to the gain node, whatever
\* came before.
C2_ElementRoutedAfterConnect ==
    lastOp.op = "connectAudioElement" =>
        /\ ElementNode(lastOp.arg) \in analyserInputs
        /\ GAIN \in analyserOut

\* C3: at most one source node is connected to the analyser in every
\* reachable state, for every interleaving of the operations.
C3_AtMostOneSource == Cardinality(analyserInputs) <= 1

RepeatedConnect ==
    /\ lastOp.op = "connectAudioElement"
    /\ lastOp.prevOp = "connectAudioElement"
    /\ lastOp.prevArg = lastOp.arg

\* C4: connectAudioElement is idempotent on the same element: the second of
\* two calls in a row with the same element does not raise and leaves the
\* routing source -> analyser -> gain -> destination of the first call.
C4_ConnectIdempotent ==
    RepeatedConnect =>
        /\ lastOp.outcome = "returned"
        /\ Routing = lastOp.before
        /\ sourceNode = lastOp.sourceBefore
        /\ sourceNode \in analyserInputs
        /\ GAIN \in analyserOut
        /\ DESTINATION \in gainOut

C4_Witness ==
    /\ RepeatedConnect
    /\ analyserInputs = {ElementNode(lastOp.arg)}
    /\ analyserOut = {GAIN}

C6_RejectionKeepsRouting ==
    (/\ lastOp.op = "getUserMediaRejected"
     /\ lastOp.prevOp = "connectMicrophone"
     /\ lastOp.prevArg = lastOp.arg) =>
        /\ lastOp.outcome = "rejected"
        /\ Routing = lastOp.before

(***************************************************************************)
(* Properties of getAudioData.                                             *)
(***************************************************************************)
\* Sum of the bins lo .. hi-1 of d.
RECURSIVE SumBins(_, _, _)
SumBins(d, lo, hi) ==
    IF hi <= lo THEN 0
    ELSE IF hi - lo = 1 THEN d[lo]
    ELSE SumBins(d, lo, (lo + hi) \div 2) + SumBins(d, (lo + hi) \div 2, hi)

\* The last call read the analyser into the buffers.
SampledData ==
    /\ lastOp.op = "getAudioData"
    /\ lastData.frequencyData = "dataArray"

\* C7: getAudioData called before the audio graph exists does not throw and
\* returns frequency and time arrays of length 0 with rms, bass, mid and
\* treble equal to 0.
C7_EmptyBeforeInit ==
    (lastOp.op = "getAudioData" /\ analyser = NULL) =>
        /\ lastOp.outcome = "returned"
        /\ Length(ArrayOf(lastData.frequencyData)) = 0
        /\ Length(ArrayOf(lastData.timeData)) = 0
        /\ IsZero(lastData.rms)
        /\ IsZero(lastData.bass)
        /\ IsZero(lastData.mid)
        /\ IsZero(lastData.treble)

C7_Witness ==
    /\ lastOp.op = "getAudioData"
    /\ audioContext = NULL
    /\ lastData.frequencyData = "new"

\* C8: for a bin array of length N >= 100 the bins [0,10) go to bass, [10,100)
\* to mid and [100,N) to treble, each bin to one band only, and each band
\* energy is the sum of the bins of its band over 10, 90 and N - 100.
C8_BandsPartitionBins ==
    (SampledData /\ Length(dataArray) >= 100) =>
        LET N == Length(dataArray)
        IN  /\ lastData.bass = Quot(SumBins(dataArray, 0, 10), 10)
            /\ lastData.mid = Quot(SumBins(dataArray, 10, 100), 90)
            /\ lastData.treble = Quot(SumBins(dataArray, 100, N), N - 100)

C8_Witness ==
    /\ SampledData
    /\ dataArray[10] = 255
    /\ dataArray[9] = 0
    /\ lastData.bass = Quot(0, 10)
    /\ lastData.mid = Quot(255, 90)

\* C9: rms is >= 0, and rms = 0 if and only if every bin is 0.
C9_RmsZeroIffSilent ==
    SampledData =>
        /\ NonNegative(lastData.rms)
        /\ IsZero(lastData.rms) <=> (\A i \in DOMAIN dataArray : dataArray[i] = 0)

C9_Witness ==
    /\ SampledData
    /\ dataArray[0] = 1
    /\ \A i \in DOMAIN dataArray : i # 0 => dataArray[i] = 0
    /\ ~IsZero(lastData.rms)

\* C10: when every bin has the same value v, bass = mid = treble = rms = v.
C10_UniformBins ==
    SampledData =>
        \A v \in 0..255 :
            (\A i \in DOMAIN dataArray : dataArray[i] = v) =>
                /\ EqualsInt(lastData.bass, v)
                /\ EqualsInt(lastData.mid, v)
                /\ EqualsInt(lastData.treble, v)
                /\ EqualsInt(lastData.rms, v)

C10_Witness ==
    /\ SampledData
    /\ \A i \in DOMAIN dataArray : dataArray[i] = 255
    /\ EqualsInt(lastData.rms, 255)
    /\ EqualsInt(lastData.treble, 255)

(***************************************************************************)
(* Properties of the frame loops.                                          *)
(***************************************************************************)
DrawCallbacks == {c \in callbacks : c.fn = "draw"}
AnimateCallbacks == {c \in callbacks : c.fn = "animate"}

\* C11 (as stated): a frame reports a beat exactly when its bass reading is
\* greater than 1.4 times the reading of the frame before it and greater
\* than 120, and the stored previous reading becomes the current reading on
\* every frame.
C11_BeatExactlyOnJump ==
    lastFrame.fn = "draw" =>
        /\ beatDetectedRef <=>
               /\ 10 * lastFrame.data.bass > 14 * lastFrame.previousBass
               /\ lastFrame.data.bass > 120
        /\ lastBassRef = lastFrame.data.bass

\* C11 (amended): a frame reports a beat exactly when its bass reading is
\* greater than the double-precision product of the previous frame's reading
\* and 1.4 and greater than 120; the stored previous reading becomes the
\* current reading on every frame, beat or not.
C11_BeatOnRoundedJump ==
    lastFrame.fn = "draw" =>
        /\ beatDetectedRef <=>
               /\ ExceedsProduct(lastFrame.data.bass, lastFrame.previousBass)
               /\ lastFrame.data.bass > 120
        /\ lastBassRef = lastFrame.data.bass
        /\ (lastFrame.previousBass = 50 /\ lastFrame.data.bass = 80)
               => ~beatDetectedRef
        /\ (lastFrame.previousBass = 50 /\ lastFrame.data.bass = 180)
               => beatDetectedRef
        /\ lastFrame.data.bass = 0 => ~beatDetectedRef

\* 50 then 180: a beat.
C11_Witness ==
    /\ lastFrame.fn = "draw"
    /\ lastFrame.previousBass = 50 /\ lastFrame.data.bass = 180
    /\ beatDetectedRef /\ lastBassRef = 180

C13_NothingPendingWhenStopped == ~isPlaying => callbacks = {}

\* Paused after frames were drawn, in a mode with a 3D component.
C13_Witness ==
    /\ ~isPlaying /\ frames >= 1 /\ requestRef # 0
    /\ scene.component # "none" /\ scene.frameRef # 0

\* C14: while playing, exactly one draw callback is pending, the one
\* requestRef names, for the current mode, and with a 3D component mounted
\* exactly one animate callback, the one frameRef names: every tick leaves
\* its successor pending.
C14_ChainNeverBreaks ==
    isPlaying =>
        /\ \E c \in callbacks :
               /\ DrawCallbacks = {c}
               /\ c.id = requestRef /\ c.mode = mode
        /\ scene.component # "none" =>
               \E c \in callbacks :
                   /\ AnimateCallbacks = {c}
                   /\ c.id = scene.frameRef /\ c.mode = mode

\* Two draws and an animate have run and the loops are still going.
C14_Witness ==
    /\ isPlaying /\ frames >= 2 /\ scene.timeRef > 0
    /\ lastFrame.mode \in WebGLModes

C17_ModeChangeEmptiesPools ==
    [][mode' # mode =>
          /\ kaleidoscopeParticlesRef' = <<>>
          /\ bubbleFieldRef' = <<>>
          /\ rotationRef' = 0
          /\ \A c \in callbacks' : c.mode = mode']_vars

\* The last frame drew Kaleidoscope with particles from a loud treble, and
\* the mode now is another one, playing, with empty pools.
C17_Witness ==
    /\ build = CANVAS /\ isPlaying
    /\ lastFrame.mode = "Kaleidoscope" /\ lastFrame.data.treble = 255
    /\ mode = "TidalBloom"
    /\ kaleidoscopeParticlesRef = <<>> /\ bubbleFieldRef = <<>>
    /\ rotationRef = 0

\* C18: a mode change resets every piece of per-mode state: after it the
\* history buffer is empty and the smoothed bass, mid and treble, the previous
\* bass of the beat detector, the phase accumulators and the rotation are at
\* their initial values.
C18_ModeChangeResetsAll ==
    [][mode' # mode =>
          /\ historyRef' = <<>>
          /\ smoothedBassRef' = 0 /\ smoothedMidRef' = 0
          /\ smoothedTrebleRef' = 0
          /\ lastBassRef' = 0
          /\ waterPhaseRef' = 0 /\ octopusPulseRef' = 0
          /\ rotationRef' = 0]_vars

\* C19: a viewport resize changes the size of the canvas and, with a 3D
\* component mounted, its renderer size and camera aspect, and nothing else:
\* rotation, pools, history, phases, smoothed values, the 3D clock and the
\* pending callbacks are as before.
C19_ResizeKeepsAnimationState ==
    [][windowSize' # windowSize =>
          /\ canvasSize' = windowSize'
          /\ UNCHANGED <<animationVars, smoothVars, requestRef, callbacks,
                         frames, mode, isPlaying, audioData, queued>>
          /\ scene' = [scene EXCEPT !.rendererSize = scene'.rendererSize,
                                    !.cameraAspect = scene'.cameraAspect,
                                    !.uResolution = scene'.uResolution]]_vars

\* The window was resized while particles and a rotation were in place.
C19_Witness ==
    /\ canvasSize = <<800, 600>>
    /\ Len(kaleidoscopeParticlesRef) > 0 /\ rotationRef > 0

\* The modes whose renderer advances the rotation.
RotatingModes ==
    IF build = CANVAS THEN {"Circular", "Kaleidoscope", "PulseTunnel"}
    ELSE IF build = GRID THEN {"Circular", "Kaleidoscope"}
    ELSE {"Circular"}

\* C20: every rendered frame of a rotating mode makes the rotation
\* accumulator strictly greater; the accumulator changes in no other way
\* except that a mode change sets it to 0; pause, resume and resize leave it
\* as it is.
C20_RotationMonotone ==
    [][/\ (frames' = frames + 1 /\ lastFrame'.mode \in RotatingModes)
              => rotationRef' > rotationRef
       /\ rotationRef' # rotationRef
              => \/ frames' = frames + 1 /\ rotationRef' > rotationRef
                 \/ mode' # mode /\ rotationRef' = 0
       /\ (isPlaying' # isPlaying \/ windowSize' # windowSize)
              => rotationRef' = rotationRef]_vars

\* Paused and resized with the rotation of two silent frames kept.
C20_Witness ==
    /\ ~isPlaying /\ canvasSize = <<800, 600>>
    /\ frames >= 2 /\ lastFrame.data.mid = 0
    /\ rotationRef >= 2 * Milli(4)

(***************************************************************************)
(* Properties of a returned snapshot.                                      *)
(***************************************************************************)
\* C16: a snapshot returned by getAudioData is not changed by a later
\* getAudioData call: the frequencyData and the timeData of a snapshot that a
\* caller kept still hold what the caller read in them when it was returned.
C16_SnapshotImmutable ==
    held.kept =>
        /\ Read(ArrayOf(held.frequencyData)) = held.frequencyRead
        /\ Read(ArrayOf(held.timeData)) = held.timeRead

(***************************************************************************)
(* Properties of the creation of the graph.                                *)
(***************************************************************************)
\* The operations that call init().
CreatingOps == {"init", "connectAudioElement", "connectMicrophone"}
CountOf(ref) == IF ref = NULL THEN 0 ELSE 1

\* C30: the audio graph is created lazily and once: the constructor creates
\* no audio context; once init or a connect call has run, the context, the
\* analyser and the gain node exist; and whatever sequence of init and connect
\* calls follows, exactly one context, one analyser and one gain node have
\* been constructed.
C30_GraphCreatedOnce ==
    /\ lastOp.op = "none" => constructed = NoneConstructed /\ audioContext = NULL
    /\ lastOp.op \in CreatingOps =>
           audioContext # NULL /\ analyser # NULL /\ gainNode # NULL
    /\ constructed = [AudioContext |-> CountOf(audioContext),
                      AnalyserNode |-> CountOf(analyser),
                      GainNode |-> CountOf(gainNode)]

\* A second creating call has run on the existing graph.
C30_Witness ==
    /\ lastOp.op \in CreatingOps
    /\ lastOp.prevOp \in CreatingOps
    /\ constructed.AudioContext = 1

(***************************************************************************)
(* Properties of the particle pools and the bounded buffers.               *)
(***************************************************************************)
\* C21: in every particle mode the life of a particle is lower after every
\* frame it is in the pool (no particle of a pool is at full life once a
\* frame has aged it), and a particle whose life falls to 0 or below during
\* a frame is removed before that frame draws the particles: no frame draws
\* a particle with life <= 0.
C21_NoDeadParticleDrawn ==
    lastFrame.fn = "draw" =>
        /\ \A life \in LivesOf(kaleidoscopeParticlesRef) \cup
                       LivesOf(bubbleFieldRef) : life < ONE
        /\ \A life \in lastFrame.drawn : life > 0

Max(a, b) == IF a > b THEN a ELSE b

\* C22: at the end of every frame a bounded history buffer holds at most its
\* maximum (the spectrogram history 30 frames, each aurora band 140 points),
\* and what it holds are the latest entries in the order they were pushed:
\* on overflow the oldest entry is the one that went.
C22_BuffersBounded ==
    /\ Len(historyRef) <= maxHistory
    /\ \A i \in 1..Len(historyRef) :
           historyRef[i] = frames - Len(historyRef) + i
    /\ \A b \in 1..Len(auroraBandsRef) :
           LET points == auroraBandsRef[b].points
           IN  /\ Len(points) <= maxPoints
               /\ \A i \in 1..Len(points) :
                      points[i] = Max(0, frames - Len(points) + i)

\* The ribbons of Grid mode are full and have begun to drop their first
\* points.
C22_Witness ==
    /\ build = GRID /\ Len(auroraBandsRef) = 4
    /\ \A b \in 1..4 : Len(auroraBandsRef[b].points) = maxPoints
    /\ frames > maxPoints - 40
    /\ auroraBandsRef[1].points[1] = 0

\* C23: in TidalBloom mode the bubble pool never holds more than its capacity
\* of 120: a frame that starts with the pool at capacity spawns no bubble.
C23_PoolWithinCapacity ==
    mode = "TidalBloom" => Len(bubbleFieldRef) <= capacity

\* A frame of TidalBloom started with a full pool, passed the random test
\* and left the pool full.
C23_Witness ==
    /\ mode = "TidalBloom" /\ lastFrame.mode = "TidalBloom"
    /\ frames > capacity
    /\ Len(bubbleFieldRef) = capacity

\* The particles of the pool that the last frame spawned: those that have
\* been aged once.
FreshParticles ==
    Cardinality({i \in 1..Len(kaleidoscopeParticlesRef) :
                    kaleidoscopeParticlesRef[i].life = ONE - Milli(20)})

\* C24: a kaleidoscope frame spawns no particle when the treble reading is
\* 110 or lower and at most 3 particles whatever the reading, for every
\* treble reading from 0 to 255.
C24_SpawnBounded ==
    (lastFrame.fn = "draw" /\ lastFrame.mode = "Kaleidoscope"
        /\ mode = "Kaleidoscope") =>
        /\ FreshParticles <= 3
        /\ lastFrame.data.treble <= 110 => FreshParticles = 0

\* Frames at the highest treble reading have spawned three particles each.
C24_Witness ==
    /\ lastFrame.mode = "Kaleidoscope" /\ lastFrame.data.treble = 255
    /\ frames >= 2
    /\ FreshParticles = 3 /\ Len(kaleidoscopeParticlesRef) = 3 * frames

(***************************************************************************)
(* Properties of what a tick paints.                                       *)
(***************************************************************************)
\* The modes with a trail: the bar spectrum and the kaleidoscope.
TrailModes == {"Spectrogram", "Kaleidoscope"}

\* C25: in a mode with a trail no tick clears the surface: the background
\* operations of the tick are low-opacity overlays and nothing else.
C25_TrailNeverCleared ==
    (lastFrame.fn = "draw" /\ lastFrame.mode \in TrailModes) =>
        /\ lastFrame.background # <<>>
        /\ \A i \in 1..Len(lastFrame.background) :
               lastFrame.background[i] = "overlay"

(***************************************************************************)
(* Properties of the 3D components.                                        *)
(***************************************************************************)
\* C26: when a 3D mode is deactivated, every GPU object its init allocated
\* is disposed: the renderer and every geometry and material (terrain, grid
\* lines, sun, stars, instanced mesh, glow plane, fullscreen quad); no
\* unmount leaves an object undisposed.
C26_AllDisposedOnUnmount == undisposed = {}

\* C27: the clock of a 3D component starts at 0 when the component is
\* mounted and is 0.016 times the number of animate frames the component has
\* executed since, whatever audio values the frames read: every frame adds
\* the same delta and nothing takes any away.
C27_ClockSteady ==
    /\ scene.timeRef = scene.executed * FrameDelta
    /\ scene.component = "none" => scene.timeRef = 0

\* A component has executed two frames that read a loud signal.
C27_Witness ==
    /\ scene.component \in Components3D
    /\ scene.executed >= 2
    /\ scene.sample.bass = 180
    /\ scene.timeRef = 2 * FrameDelta

\* C28: in the instanced modes the attributes computed at scene creation
\* (AetherRings: z, baseScale, speed, hue, index; PrismShardField: position,
\* spin, phase, index) are as init computed them after any number of animate
\* frames; the frames write the instance matrices only.
C28_InstanceDataFixed ==
    scene.component \in InstancedModes =>
        scene.instances = Created(scene.component)

C31_SetVolumeOnlyGain ==
    [][lastOp'.op = "setVolume" =>
          /\ UNCHANGED <<audioContext, analyser, gainNode, dataArray, timeArray,
                         gainOut, constructed, ctxState, routeVars, lastData>>
          /\ lastOp'.outcome = "returned"
          /\ gainValue' = (IF gainNode = NULL THEN gainValue ELSE lastOp'.arg)]_vars

\* A volume has been set on a graph with a source attached.
C31_Witness ==
    /\ lastOp.op = "setVolume"
    /\ lastOp.sourceBefore # NULL
    /\ sourceNode # NULL
    /\ gainValue = lastOp.arg
    /\ gainValue # DefaultGain

(***************************************************************************)
(* C32: play and pause are idempotent.  A play requested while playing     *)
(* leaves the one draw callback, and the one animate callback of a mounted *)
(* 3D component, that were pending, adds none and changes no handle; a     *)
(* pause requested while stopped, also before any frame was requested,     *)
(* changes nothing; and whatever step starts and ends stopped leaves no    *)
(* callback pending.                                                       *)
(***************************************************************************)
C32_PlayPauseIdempotent ==
    [][/\ (lastRequest' # lastRequest /\ lastRequest'.kept) =>
              /\ lastRequest'.isPlaying = isPlaying
              /\ UNCHANGED <<isPlaying, callbacks, requestRef, scene, mode,
                             animationVars, frames>>
              /\ isPlaying => Cardinality(DrawCallbacks') = 1
              /\ isPlaying => Cardinality(AnimateCallbacks') <= 1
              /\ ~isPlaying => callbacks' = {}
       /\ (~isPlaying /\ ~isPlaying') =>
              callbacks' = {} /\ requestRef' = requestRef]_vars

\* Play was requested while both loops were running after a frame, and the
\* two callbacks are the ones still pending.
C32_Witness ==
    /\ lastRequest = [isPlaying |-> TRUE, kept |-> TRUE]
    /\ isPlaying /\ frames >= 1 /\ scene.component # "none"
    /\ Cardinality(DrawCallbacks) = 1 /\ Cardinality(AnimateCallbacks) = 1

(***************************************************************************)
(* C33: in a 3D mode every audio value one animate frame uses, the bass,   *)
(* mid, treble and rms and the entries of frequencyData, comes from one    *)
(* and the same getAudioData read, whatever the order of the draw ticks    *)
(* and the animate ticks.                                                  *)
(***************************************************************************)
C33_OneReadPerAnimate ==
    scene.executed > 0 => scene.frequencyData = scene.sample

(***************************************************************************)
(* C34: in a mounted 3D component that is playing, the render that brings  *)
(* a new audioData replaces the pending animate request by exactly one new *)
(* one: the request that was pending is cancelled, the new one is the one  *)
(* frameRef names and carries the new audioData, and no other animate      *)
(* callback is pending.                                                    *)
(***************************************************************************)
C34_AnimateReplacedOnNewData ==
    [][(/\ queued # <<>> /\ queued' = <<>>
        /\ isPlaying /\ isPlaying'
        /\ scene.component # "none" /\ scene'.component = scene.component) =>
           /\ \A old \in AnimateCallbacks : old \notin callbacks'
           /\ \E c \in callbacks' :
                  /\ AnimateCallbacks' = {c}
                  /\ c.id = scene'.frameRef /\ c.id # scene.frameRef
                  /\ c.data = audioData' /\ c.data = queued[1]
                  /\ c.mode = scene.component]_vars

\* After animate frames, the render of a loud read has left one animate
\* request, made with that read.
C34_Witness ==
    /\ isPlaying /\ scene.component = "FluxBloom" /\ scene.executed >= 1
    /\ queued = <<>> /\ audioData = Reading(180, 255, 255)
    /\ \E c \in callbacks :
           /\ AnimateCallbacks = {c}
           /\ c.id = scene.frameRef /\ c.data = audioData
    /\ scene.sample # audioData

(***************************************************************************)
(* C35: a mode change while stopped empties the pools and sets the         *)
(* rotation to 0 and leaves the visualizer stopped: no draw and no animate *)
(* callback is pending after it and no ref names a new request; and no     *)
(* step taken while stopped is a frame, so nothing is rendered until       *)
(* isPlaying is true.                                                      *)
(***************************************************************************)
C35_ModeChangeWhileStopped ==
    [][/\ (mode' # mode /\ ~isPlaying) =>
              /\ ~isPlaying'
              /\ callbacks' = {}
              /\ requestRef' = requestRef
              /\ scene'.frameRef = 0
              /\ kaleidoscopeParticlesRef' = <<>>
              /\ bubbleFieldRef' = <<>>
              /\ rotationRef' = 0
       /\ ~isPlaying =>
              /\ frames' = frames
              /\ lastFrame' = lastFrame
              /\ scene'.executed <= scene.executed
              /\ scene'.timeRef <= scene.timeRef]_vars

\* Stopped in a mode other than the one of the last frame, which drew
\* Kaleidoscope particles; the pools are empty and nothing is pending.
C35_Witness ==
    /\ build = CANVAS /\ ~isPlaying /\ frames >= 1
    /\ lastFrame.mode = "Kaleidoscope" /\ lastFrame.data.treble = 255
    /\ mode = "VoxelOctopus"
    /\ kaleidoscopeParticlesRef = <<>> /\ rotationRef = 0
    /\ callbacks = {} /\ requestRef # 0

(***************************************************************************)
(* C36: connectMicrophone is rejected only when the acquisition of the     *)
(* microphone fails: from every state of the engine, also as the first     *)
(* operation, when the analyser has never been connected to the gain node, *)
(* the call gets as far as getUserMedia.                                   *)
(***************************************************************************)
C36_MicRejectedOnlyByAcquisition ==
    lastOp.op = "connectMicrophone" => lastOp.outcome = "pending"

\* 0 <= x <= 255, for a quotient or the square root of a quotient
InByteRange(x) ==
    /\ x[3] > 0 /\ x[2] >= 0
    /\ IF x[1] = "quot" THEN x[2] <= 255 * x[3]
       ELSE x[2] <= 255 * 255 * x[3]

(***************************************************************************)
(* C37: for every array of 8-bit magnitudes the analyser hands out, the    *)
(* bass, mid, treble and rms that getAudioData returns lie between 0 and   *)
(* 255, both included.                                                     *)
(***************************************************************************)
C37_BandsInByteRange ==
    (lastOp.op = "getAudioData" /\ lastOp.outcome = "returned") =>
        /\ InByteRange(lastData.bass)
        /\ InByteRange(lastData.mid)
        /\ InByteRange(lastData.treble)
        /\ InByteRange(lastData.rms)

\* A read of a spectrum with every bin at 255: all four values are 255.
C37_Witness ==
    /\ lastOp.op = "getAudioData" /\ lastData.frequencyData = "dataArray"
    /\ \A i \in DOMAIN dataArray : dataArray[i] = 255
    /\ EqualsInt(lastData.bass, 255) /\ EqualsInt(lastData.mid, 255)
    /\ EqualsInt(lastData.treble, 255) /\ EqualsInt(lastData.rms, 255)

(***************************************************************************)
(* C38: the kaleidoscope pool stays bounded without a capacity test.  A    *)
(* frame pushes at most 3 particles and then ages all by 0.02 and removes  *)
(* those at 0 or below, so a particle stays for 49 frames: the pool holds  *)
(* at most 147 particles between frames and at most 150 right after the    *)
(* pushes of a frame.                                                      *)
(***************************************************************************)
C38_KaleidoscopePoolBounded ==
    /\ Len(kaleidoscopeParticlesRef) + particlesToSpawn(255) <= 150
    /\ \A t \in 0..255 : particlesToSpawn(t) <= 3

\* More than fifty frames at the highest treble: the pool is at its maximum.
C38_Witness ==
    /\ mode = "Kaleidoscope" /\ lastFrame.mode = "Kaleidoscope"
    /\ lastFrame.data.treble = 255
    /\ frames > 50
    /\ Len(kaleidoscopeParticlesRef) = 147

====
